---- MODULE Spec2Model ----
(***************************************************************************)
(* State-machine model of the ingestion pipeline of dy_gh_watch_and_upload:*)
(* UploadService (src/services/upload_service.py), the UploadResult row    *)
(* methods (src/models/upload_result.py), FileProcessor                    *)
(* (src/services/file_processor.py) and the wiring of FileMonitorApp       *)
(* (src/main.py).                                                          *)
(*                                                                         *)
(* Threads are modelled by a program counter per worker; a step is the     *)
(* code a thread runs between two blocking points (a queue get, the        *)
(* transport call, the retry-delay sleep, a queue join).  The transport    *)
(* (APIClient.upload_file) is an external collaborator: one call returns   *)
(* success or a failure, chosen freely; it never raises (api_client.py     *)
(* lines 170-180).                                                         *)
(*                                                                         *)
(* Spec         : UploadService driven through its public methods.         *)
(* SpecPipeline : FileMonitorApp's wiring: files enter through             *)
(*                FileProcessor.add_file and reach UploadService only      *)
(*                through the ready-for-upload callback.                   *)
(***************************************************************************)
EXTENDS Integers, Sequences, FiniteSets, TLC

(* ------------------------------ bounds --------------------------------- *)
\* number of add_upload_task calls explored
MaxTasks == 2
\* size of the UploadService worker pool explored (max_concurrent_uploads)
NumWorkers == 2
\* number of transport failures the environment injects
MaxFailures == 4
\* number of cancel_upload calls explored
MaxCancels == 1
\* number of FileProcessor.add_file calls explored
MaxFiles == 2
\* size of the FileProcessor processing pool explored
NumProcessingWorkers == 2
\* number of transport failures injected into the sweep's uploads
MaxSweepFailures == 3
\* number of process crashes explored
MaxCrashes == 1
\* number of items given to the two stages together when both pools run
\* over a store that may be down
MaxItems == 2
\* value of upload_attempts up to which direct calls of the row methods are explored
MaxAttempts == 3
\* number of add_file and of add_upload_task calls explored statement by
\* statement
MaxLockFiles == 1
MaxLockTasks == 1
\* largest configured api.retry_attempts explored
MaxConfiguredRetries == 2
\* number of times the sweep takes up one path
MaxSweeps == 3
\* number of removal events per path explored
MaxRemovals == 1
\* number of transport failures injected while two tasks are followed
\* statement by statement
MaxDelayFailures == 1

(* ------------------------- program constants --------------------------- *)
\* UploadTask.max_retries dataclass default; add_upload_task never overrides it
MaxRetries == 3
\* UploaderService.max_retries: the api.retry_attempts default
SweepMaxRetries == 3
\* the upload_result_id FileMonitorApp._on_file_ready_for_upload passes for every file
DummyUploadResultId == 1

Paths == {"a", "b"}
Priorities == {0, 1}
NoError == <<"none", 0>>
None == 0
\* the api_response / api_file_id of an upload the transport has not answered
NoResponse == <<0, 0>>
Workers == 1..NumWorkers
ProcessingWorkers == 1..NumProcessingWorkers
TaskIds == 1..MaxTasks
FileTaskIds == 1..MaxFiles
\* the thread of a caller of the public methods (add_upload_task,
\* cancel_upload, add_file); the worker threads are Workers
Client == 0
LockThreads == Workers \cup {Client}
\* a threading.Lock nobody holds
Unlocked == -1
\* what _validate_file finds at a path handed to FileProcessor.add_file
Kinds == {"valid", "missing", "oversize", "bad_extension"}

\* the id of the UploadResult row of a path
RecordOf(p) == IF p = "a" THEN 1 ELSE 2
RecordIds == {RecordOf(p) : p \in Paths}

VARIABLES
    tasks,            \* UploadTask objects, in creation order (index = identity)
    upload_queue,     \* UploadService.upload_queue (task indices, FIFO)
    priority_queue,   \* UploadService.priority_queue
    unfinished,       \* Queue.unfinished_tasks of the two queues
    active_uploads,   \* UploadService.active_uploads: path -> task index / None
    stats,            \* UploadService.stats
    shutdown_event,   \* UploadService.shutdown_event
    is_running,       \* UploadService.is_running
    workers,          \* per _upload_worker thread: position and task in hand
    stopper,          \* position of the thread that called UploadService.stop()
    upload_results,   \* persisted UploadResult rows, by id
    calls,            \* observer: transport invocations per task
    callbacks,        \* observer: callback invocations per task
    lastError,        \* observer: error of the last failed transport call per task
    enqueues,         \* observer: number of puts of the task on a queue
    failedWrites,     \* observer: mark_upload_failed writes made for the task
    cancelledIn,      \* observer: status the task had when cancel_upload returned True
    failures,         \* observer: transport failures injected so far
    atStop,           \* observer: <<task, enqueues>> of the items queued when stop() was called
    file_tasks,            \* FileTask objects, in creation order
    processing_queue,      \* FileProcessor.processing_queue
    processing_unfinished, \* its Queue.unfinished_tasks
    processing_files,      \* FileProcessor.processing_files: path -> task index / None
    file_infos,            \* persisted FileInfo.processing_status by path ("absent": no row)
    processing_workers,    \* per _processing_worker thread: position
    fp_shutdown_event,     \* FileProcessor.shutdown_event
    fp_is_running,         \* FileProcessor.is_running
    fp_stopper,            \* position of the thread that called FileProcessor.stop()
    file_failed_callbacks, \* observer: on_file_failed_callback invocations per file task
    sweep,            \* the thread running process_pending_uploads: position, files left, file in hand, attempt
    sweep_records,    \* UploadResult rows created by UploaderService (same table, ids after RecordIds)
    sweep_calls,      \* observer: transport invocations made by the sweep, per path
    sweep_started,    \* observer: upload_and_record calls begun, per path
    sweep_failures,   \* observer: transport failures injected into the sweep
    crashes,          \* observer: process crashes so far
    locks,            \* holder of upload_lock, processing_lock, uploading_lock (Unlocked: free)
    threads,          \* per thread stepping statement by statement: statements left, task in hand
    is_deleted,       \* persisted FileInfo.is_deleted by path
    removal_events,   \* observer: on_deleted events handled, per path
    restarted,        \* observer: start() has been called after a stop()
    late_tasks,       \* observer: tasks added after that start()
    uploader_max_retries  \* UploaderService.max_retries (api.retry_attempts)

uploadVars == <<tasks, upload_queue, priority_queue, unfinished, active_uploads, stats,
                shutdown_event, is_running, workers, stopper, upload_results,
                calls, callbacks, lastError, enqueues, failedWrites, cancelledIn,
                failures, atStop>>

processingVars == <<file_tasks, processing_queue, processing_unfinished,
                    processing_files, file_infos, processing_workers,
                    fp_shutdown_event, fp_is_running, fp_stopper,
                    file_failed_callbacks>>

sweepVars == <<sweep, sweep_records, sweep_calls, sweep_started, sweep_failures, crashes>>

lockVars == <<locks, threads>>

monitorVars == <<is_deleted, removal_events>>

restartVars == <<restarted, late_tasks>>

\* the state only the statement-level, FileMonitor, restart and
\* configuration parts of the model change
otherVars == <<lockVars, monitorVars, restartVars, uploader_max_retries>>

vars == <<uploadVars, processingVars, sweepVars, otherVars>>

(* ------------------------- UploadResult model -------------------------- *)
\* a row as create_from_file_info saves it: the column defaults
NewUploadResult(p) ==
    [file_path |-> p, upload_status |-> "pending", upload_attempts |-> 0,
     error_message |-> NoError, api_file_id |-> NoResponse]

update_api_response(rec, api_response) ==
    [rec EXCEPT !.api_file_id = api_response,
                !.upload_status = "success",
                !.upload_attempts = @ + 1]

mark_upload_failed(rec, error_message) ==
    [rec EXCEPT !.upload_status = "failed",
                !.upload_attempts = @ + 1,
                !.error_message = error_message]

mark_in_progress(rec) == [rec EXCEPT !.upload_status = "in_progress"]

reset_for_retry_keeping_error(rec) == [rec EXCEPT !.upload_status = "pending"]

reset_for_retry_from_zero(rec) ==
    [rec EXCEPT !.upload_status = "pending", !.error_message = NoError,
                !.upload_attempts = 0]

reset_for_retry(rec) ==
    [rec EXCEPT !.upload_status = "pending", !.error_message = NoError]

(* --------------------------- UploadTask model -------------------------- *)
NewUploadTask(p, rid, prio) ==
    [file_path |-> p, upload_result_id |-> rid, status |-> "pending",
     priority |-> prio, retry_count |-> 0, max_retries |-> MaxRetries,
     error_message |-> NoError, api_response |-> NoResponse]

can_retry_early(task) == task.retry_count < task.max_retries - 1

can_retry_inclusive(task) == task.retry_count <= task.max_retries

can_retry(task) == task.retry_count < task.max_retries

increment_retry_by_two(task) == [task EXCEPT !.retry_count = @ + 2]

increment_retry(task) == [task EXCEPT !.retry_count = @ + 1]

\* the remote identifier the transport returns for a call
ApiResponse(t) == <<t, calls[t]>>

\* the error text the transport returns for a failed call (it names the attempt)
TransportError(t) == <<"timeout", calls[t]>>

\* the error text APIClient.upload_file returns when the file is not at the
\* path any more: the FileNotFoundError it raises is caught by its own
\* handler and comes back as an ordinary failure result
FileMissingError(t) == <<"not_found", calls[t]>>

\* the failure results APIClient.upload_file can return
ErrorKinds == {"timeout", "not_found"}

UploadFileError(kind, t) ==
    IF kind = "not_found" THEN FileMissingError(t) ELSE TransportError(t)

(* ------------------------------ callbacks ------------------------------ *)
on_upload_started_callback(cbs, t) == [cbs EXCEPT ![t].started = @ + 1]

on_upload_completed_callback(cbs, t) == [cbs EXCEPT ![t].completed = @ + 1]

on_upload_failed_callback(cbs, t) == [cbs EXCEPT ![t].failed = @ + 1]

on_upload_retry_callback_skipped(cbs, t) == cbs

on_upload_retry_callback(cbs, t) == [cbs EXCEPT ![t].retry = @ + 1]

(* -------------------------------- Init --------------------------------- *)
\* The services after construction: empty queues, workers polling.  The
\* store holds the UploadResult row of each path as create_from_file_info
\* saves it.
InitServices ==
    /\ tasks = <<>>
    /\ upload_queue = <<>>
    /\ priority_queue = <<>>
    /\ unfinished = [upload |-> 0, priority |-> 0]
    /\ active_uploads = [p \in Paths |-> None]
    /\ stats = [total_uploads |-> 0, successful_uploads |-> 0, failed_uploads |-> 0,
                retry_uploads |-> 0, pending_uploads |-> 0]
    /\ shutdown_event = FALSE
    /\ is_running = FALSE
    /\ workers = [w \in Workers |-> [pc |-> "loop", task |-> None]]
    /\ stopper = "idle"
    /\ upload_results = [r \in RecordIds |->
                            NewUploadResult(CHOOSE p \in Paths : RecordOf(p) = r)]
    /\ calls = [t \in TaskIds |-> 0]
    /\ callbacks = [t \in TaskIds |-> [started |-> 0, completed |-> 0,
                                       failed |-> 0, retry |-> 0]]
    /\ lastError = [t \in TaskIds |-> NoError]
    /\ enqueues = [t \in TaskIds |-> 0]
    /\ failedWrites = [t \in TaskIds |-> 0]
    /\ cancelledIn = [t \in TaskIds |-> "never"]
    /\ failures = 0
    /\ atStop = {}
    /\ file_tasks = <<>>
    /\ processing_queue = <<>>
    /\ processing_unfinished = 0
    /\ processing_files = [p \in Paths |-> None]
    /\ processing_workers = [w \in ProcessingWorkers |-> "loop"]
    /\ fp_shutdown_event = FALSE
    /\ fp_is_running = FALSE
    /\ fp_stopper = "idle"
    /\ file_failed_callbacks = [t \in FileTaskIds |-> 0]
    /\ sweep = [pc |-> "idle", pending |-> <<>>, file |-> "none", attempt |-> 0]
    /\ sweep_records = <<>>
    /\ sweep_calls = [p \in Paths |-> 0]
    /\ sweep_started = [p \in Paths |-> 0]
    /\ sweep_failures = 0
    /\ crashes = 0
    /\ locks = [upload_lock |-> Unlocked, processing_lock |-> Unlocked,
                uploading_lock |-> Unlocked]
    /\ threads = [th \in LockThreads |-> [todo |-> <<>>, task |-> None]]
    /\ is_deleted = [p \in Paths |-> FALSE]
    /\ removal_events = [p \in Paths |-> 0]
    /\ restarted = FALSE
    /\ late_tasks = {}

\* construction over a store that holds no FileInfo row
Init ==
    /\ InitServices
    /\ file_infos = [p \in Paths |-> "absent"]
    /\ uploader_max_retries = SweepMaxRetries

(* ----------------------------- UploadService --------------------------- *)
\* the effect of add_upload_task on the UploadService state
AddUploadTask(p, rid, prio) ==
    /\ Len(tasks) < MaxTasks
    /\ LET t == Len(tasks) + 1 IN
        /\ tasks' = Append(tasks, NewUploadTask(p, rid, prio))
        /\ IF prio > 0
           THEN /\ priority_queue' = Append(priority_queue, t)
                /\ upload_queue' = upload_queue
                /\ unfinished' = [unfinished EXCEPT !.priority = @ + 1]
           ELSE /\ upload_queue' = Append(upload_queue, t)
                /\ priority_queue' = priority_queue
                /\ unfinished' = [unfinished EXCEPT !.upload = @ + 1]
        /\ stats' = [stats EXCEPT !.total_uploads = @ + 1, !.pending_uploads = @ + 1]
        /\ enqueues' = [enqueues EXCEPT ![t] = @ + 1]
    /\ UNCHANGED <<active_uploads, shutdown_event, is_running, workers, stopper,
                   upload_results, calls, callbacks, lastError, failedWrites,
                   cancelledIn, failures, atStop>>

\* add_upload_task called by a client with the row id of the file
add_upload_task(p, prio) ==
    /\ AddUploadTask(p, RecordOf(p), prio)
    /\ UNCHANGED <<processingVars, sweepVars, otherVars>>

\* Queue.task_done on upload_queue and then on priority_queue, as the worker
\* calls them: task_done raises ValueError, and changes nothing, on a queue
\* with no unfinished item, and the first call raising skips the second
TaskDoneBoth(u) ==
    IF u.upload = 0 THEN u
    ELSE IF u.priority = 0 THEN [u EXCEPT !.upload = @ - 1]
    ELSE [upload |-> u.upload - 1, priority |-> u.priority - 1]

\* _process_upload from its first line to the transport call being issued
ProcessStart(w, t) ==
    /\ tasks' = [tasks EXCEPT ![t].status = "uploading"]
    /\ active_uploads' = [active_uploads EXCEPT ![tasks[t].file_path] = t]
    /\ stats' = [stats EXCEPT !.pending_uploads = @ - 1]
    /\ callbacks' = on_upload_started_callback(callbacks, t)
    /\ calls' = [calls EXCEPT ![t] = @ + 1]
    /\ workers' = [workers EXCEPT ![w] = [pc |-> "upload", task |-> t]]

\* the while-check of the worker loop, then priority_queue.get(timeout=1)
WorkerLoop(w) ==
    /\ workers[w].pc = "loop"
    /\ IF shutdown_event
       THEN /\ workers' = [workers EXCEPT ![w].pc = "exited"]
            /\ UNCHANGED <<priority_queue, tasks, active_uploads, stats, callbacks, calls>>
       ELSE IF priority_queue # <<>>
       THEN /\ priority_queue' = Tail(priority_queue)
            /\ ProcessStart(w, Head(priority_queue))
       ELSE /\ workers' = [workers EXCEPT ![w].pc = "get_upload"]
            /\ UNCHANGED <<priority_queue, tasks, active_uploads, stats, callbacks, calls>>
    /\ UNCHANGED <<upload_queue, unfinished, shutdown_event, is_running, stopper,
                   upload_results, lastError, enqueues, failedWrites, cancelledIn,
                   failures, atStop>>
    /\ UNCHANGED <<processingVars, sweepVars, otherVars>>

\* upload_queue.get(timeout=1) after the priority queue timed out
WorkerGetUpload(w) ==
    /\ workers[w].pc = "get_upload"
    /\ IF upload_queue # <<>>
       THEN /\ upload_queue' = Tail(upload_queue)
            /\ ProcessStart(w, Head(upload_queue))
       ELSE /\ workers' = [workers EXCEPT ![w].pc = "loop"]
            /\ UNCHANGED <<upload_queue, tasks, active_uploads, stats, callbacks, calls>>
    /\ UNCHANGED <<priority_queue, unfinished, shutdown_event, is_running, stopper,
                   upload_results, lastError, enqueues, failedWrites, cancelledIn,
                   failures, atStop>>
    /\ UNCHANGED <<processingVars, sweepVars, otherVars>>

\* _update_upload_result: looks the row up by the task's upload_result_id
\* and writes the outcome the task's status selects
UpdateUploadResult(results, task) ==
    IF task.upload_result_id \in DOMAIN results
    THEN [results EXCEPT ![task.upload_result_id] =
            IF task.status = "success"
            THEN update_api_response(@, task.api_response)
            ELSE mark_upload_failed(@, task.error_message)]
    ELSE results

\* _update_upload_result with the store up (store_ok) or down: an exception
\* of db_manager.get_session, of the query or of the row method is caught
\* and logged inside _update_upload_result (lines 396-398), the row is left
\* as it was and the caller is not told
UpdateUploadResultStore(results, task, store_ok) ==
    IF store_ok THEN UpdateUploadResult(results, task) ELSE results

\* the finally-block of _process_upload, then the task_done calls of the worker
ProcessFinally(w, u) ==
    /\ active_uploads' = [active_uploads EXCEPT ![tasks[workers[w].task].file_path] = None]
    /\ unfinished' = TaskDoneBoth(u)
    /\ workers' = [workers EXCEPT ![w] = [pc |-> "loop", task |-> None]]

\* the transport returned success: _handle_upload_success, then the
\* finally-block and the task_done calls; store_ok tells whether the store
\* accepts the write of _update_upload_result
HandleUploadSuccessStore(w, store_ok) ==
    /\ workers[w].pc = "upload"
    /\ LET t == workers[w].task
           task == [tasks[t] EXCEPT !.status = "success",
                                    !.api_response = ApiResponse(t)]
       IN
        /\ tasks' = [tasks EXCEPT ![t] = task]
        /\ upload_results' = UpdateUploadResultStore(upload_results, task, store_ok)
        /\ stats' = [stats EXCEPT !.successful_uploads = @ + 1]
        /\ callbacks' = on_upload_completed_callback(callbacks, t)
    /\ ProcessFinally(w, unfinished)
    /\ UNCHANGED <<upload_queue, priority_queue, shutdown_event, is_running, stopper,
                   calls, lastError, enqueues, failedWrites, cancelledIn, failures,
                   atStop>>
    /\ UNCHANGED <<processingVars, sweepVars, otherVars>>

\* _handle_upload_success over a store that is up
HandleUploadSuccess(w) == HandleUploadSuccessStore(w, TRUE)

\* the transport returned a failure: _handle_upload_failure.  A retry runs
\* _handle_upload_retry up to the retry-delay sleep; a final failure runs
\* the failure block, which the source holds twice in sequence (lines
\* 303-312 and 314-323), then the finally-block and the task_done calls;
\* kind is the failure upload_file returned; store_ok1 and store_ok2 tell
\* whether the store accepts the first and the second write of the failure
\* block
HandleUploadFailureOf(w, kind, store_ok1, store_ok2) ==
    /\ workers[w].pc = "upload"
    /\ failures < MaxFailures
    /\ failures' = failures + 1
    /\ LET t == workers[w].task
           error_msg == UploadFileError(kind, t)
       IN
        /\ lastError' = [lastError EXCEPT ![t] = error_msg]
        /\ IF can_retry(tasks[t])
           THEN /\ tasks' = [tasks EXCEPT ![t] =
                        [increment_retry(@) EXCEPT !.status = "retry",
                                                   !.error_message = error_msg]]
                /\ stats' = [stats EXCEPT !.retry_uploads = @ + 1]
                /\ callbacks' = on_upload_retry_callback(callbacks, t)
                /\ workers' = [workers EXCEPT ![w].pc = "retry_sleep"]
                /\ UNCHANGED <<upload_results, failedWrites, active_uploads, unfinished>>
           ELSE LET task == [tasks[t] EXCEPT !.status = "failed",
                                             !.error_message = error_msg]
                IN
                /\ tasks' = [tasks EXCEPT ![t] = task]
                /\ upload_results' = UpdateUploadResultStore(
                                        UpdateUploadResultStore(upload_results, task, store_ok1),
                                        task, store_ok2)
                /\ failedWrites' = [failedWrites EXCEPT ![t] =
                                        @ + (IF store_ok1 THEN 1 ELSE 0)
                                          + (IF store_ok2 THEN 1 ELSE 0)]
                /\ stats' = [stats EXCEPT !.failed_uploads = @ + 2]
                /\ callbacks' = on_upload_failed_callback(
                                    on_upload_failed_callback(callbacks, t), t)
                /\ ProcessFinally(w, unfinished)
    /\ UNCHANGED <<upload_queue, priority_queue, shutdown_event, is_running, stopper,
                   calls, enqueues, cancelledIn, atStop>>
    /\ UNCHANGED <<processingVars, sweepVars, otherVars>>

\* _handle_upload_failure after a transport failure
HandleUploadFailureStore(w, store_ok1, store_ok2) ==
    HandleUploadFailureOf(w, "timeout", store_ok1, store_ok2)

\* _handle_upload_failure after a transport failure, over a store that is up
HandleUploadFailure(w) == HandleUploadFailureStore(w, TRUE, TRUE)

\* _handle_upload_retry after time.sleep(retry_delay): the task is put back
\* on the queue of its priority class; then the finally-block and the
\* task_done calls
RetryRequeue(w) ==
    /\ workers[w].pc = "retry_sleep"
    /\ LET t == workers[w].task IN
        /\ IF tasks[t].priority > 0
           THEN /\ priority_queue' = Append(priority_queue, t)
                /\ upload_queue' = upload_queue
                /\ ProcessFinally(w, [unfinished EXCEPT !.priority = @ + 1])
           ELSE /\ upload_queue' = Append(upload_queue, t)
                /\ priority_queue' = priority_queue
                /\ ProcessFinally(w, [unfinished EXCEPT !.upload = @ + 1])
        /\ enqueues' = [enqueues EXCEPT ![t] = @ + 1]
    /\ UNCHANGED <<tasks, stats, shutdown_event, is_running, stopper,
                   upload_results, calls, callbacks, lastError, failedWrites,
                   cancelledIn, failures, atStop>>
    /\ UNCHANGED <<processingVars, sweepVars, otherVars>>

\* cancel_upload(file_path) finding the path in active_uploads (returns True)
cancel_upload(p) ==
    /\ active_uploads[p] # None
    /\ Cardinality({t \in TaskIds : cancelledIn[t] # "never"}) < MaxCancels
    /\ LET t == active_uploads[p] IN
        /\ tasks' = [tasks EXCEPT ![t].status = "cancelled"]
        /\ cancelledIn' = [cancelledIn EXCEPT ![t] = tasks[t].status]
    /\ active_uploads' = [active_uploads EXCEPT ![p] = None]
    /\ UNCHANGED <<upload_queue, priority_queue, unfinished, stats, shutdown_event,
                   is_running, workers, stopper, upload_results, calls, callbacks,
                   lastError, enqueues, failedWrites, failures, atStop>>
    /\ UNCHANGED <<processingVars, sweepVars, otherVars>>

\* the effect of start() on the UploadService state: the flags are set, no
\* thread is created (the worker threads are started by __init__ only)
Start ==
    /\ ~is_running
    /\ stopper = "idle"
    /\ is_running' = TRUE
    /\ shutdown_event' = FALSE
    /\ UNCHANGED <<tasks, upload_queue, priority_queue, unfinished, active_uploads,
                   stats, workers, stopper, upload_results, calls, callbacks,
                   lastError, enqueues, failedWrites, cancelledIn, failures, atStop>>

start ==
    /\ Start
    /\ UNCHANGED <<processingVars, sweepVars, otherVars>>

\* the items waiting on a queue
Queued == {upload_queue[i] : i \in DOMAIN upload_queue}
            \cup {priority_queue[i] : i \in DOMAIN priority_queue}

\* stop() up to upload_queue.join()
stop ==
    /\ is_running
    /\ stopper = "idle"
    /\ shutdown_event' = TRUE
    /\ is_running' = FALSE
    /\ stopper' = "join_upload"
    /\ atStop' = {<<t, enqueues[t]>> : t \in Queued}
    /\ UNCHANGED <<tasks, upload_queue, priority_queue, unfinished, active_uploads,
                   stats, workers, upload_results, calls, callbacks, lastError,
                   enqueues, failedWrites, cancelledIn, failures>>
    /\ UNCHANGED <<processingVars, sweepVars, otherVars>>

\* upload_queue.join() returns, priority_queue.join() begins
StopJoinUpload ==
    /\ stopper = "join_upload"
    /\ unfinished.upload = 0
    /\ stopper' = "join_priority"
    /\ UNCHANGED <<tasks, upload_queue, priority_queue, unfinished, active_uploads,
                   stats, shutdown_event, is_running, workers, upload_results, calls,
                   callbacks, lastError, enqueues, failedWrites, cancelledIn, failures,
                   atStop>>
    /\ UNCHANGED <<processingVars, sweepVars, otherVars>>

\* priority_queue.join() returns and stop() returns
StopJoinPriority ==
    /\ stopper = "join_priority"
    /\ unfinished.priority = 0
    /\ stopper' = "idle"
    /\ UNCHANGED <<tasks, upload_queue, priority_queue, unfinished, active_uploads,
                   stats, shutdown_event, is_running, workers, upload_results, calls,
                   callbacks, lastError, enqueues, failedWrites, cancelledIn, failures,
                   atStop>>
    /\ UNCHANGED <<processingVars, sweepVars, otherVars>>

Next ==
    \/ \E p \in Paths, prio \in Priorities : add_upload_task(p, prio)
    \/ \E w \in Workers : WorkerLoop(w)
    \/ \E w \in Workers : WorkerGetUpload(w)
    \/ \E w \in Workers : HandleUploadSuccess(w)
    \/ \E w \in Workers : HandleUploadFailure(w)
    \/ \E w \in Workers : RetryRequeue(w)
    \/ \E p \in Paths : cancel_upload(p)
    \/ start
    \/ stop
    \/ StopJoinUpload
    \/ StopJoinPriority

Spec == Init /\ [][Next]_vars

(* ----------------------------- FileProcessor --------------------------- *)
\* a FileTask as add_file builds it; kind is what _validate_file will find
\* at the path
NewFileTask(p, kind, prio) ==
    [file_path |-> p, kind |-> kind, status |-> "pending", priority |-> prio]

\* _validate_file: the file exists, is within max_file_size and carries an
\* allowed extension
validate_file(file_task) == file_task.kind = "valid"

\* add_file: _get_or_create_file_info saves a FileInfo row when the path has
\* none, the task is put on processing_queue and entered in processing_files.
\* No validation is made here.  For a path with no file and no row,
\* FileInfo.create_from_path raises at path_obj.stat() and add_file re-raises
\* with nothing changed; with a row present the missing file is enqueued.
add_file(p, kind, prio) ==
    /\ Len(file_tasks) < MaxFiles
    /\ ~(kind = "missing" /\ file_infos[p] = "absent")
    /\ LET t == Len(file_tasks) + 1 IN
        /\ file_tasks' = Append(file_tasks, NewFileTask(p, kind, prio))
        /\ processing_queue' = Append(processing_queue, t)
        /\ processing_files' = [processing_files EXCEPT ![p] = t]
    /\ processing_unfinished' = processing_unfinished + 1
    /\ file_infos' = [file_infos EXCEPT ![p] = IF @ = "absent" THEN "new" ELSE @]
    /\ UNCHANGED <<processing_workers, fp_shutdown_event, fp_is_running, fp_stopper,
                   file_failed_callbacks>>
    /\ UNCHANGED <<uploadVars, sweepVars, otherVars>>

\* _process_file(file_task), then processing_queue.task_done() when
\* _process_file returned.  The FileInfo in the task was loaded by a session
\* that _get_or_create_file_info closed; every mark_* call commits and
\* refreshes it through a new session.  attached tells whether the store
\* layer accepts that:
\*   no : mark_processing raises, the handler's mark_error raises again, the
\*        exception leaves _process_file and the worker skips task_done;
\*   yes: an invalid file is marked error and _process_file returns; a valid
\*        file reaches line 310, where FileStatus.COMPLETED (no such member)
\*        raises, and the handler marks the task and the row failed and
\*        fires on_file_failed_callback.
\* The statements after line 310 (the ready-for-upload callback, the put on
\* upload_queue) are never run.
process_file(t, attached) ==
    /\ file_tasks' = [file_tasks EXCEPT ![t].status = "failed"]
    /\ IF ~attached
       THEN UNCHANGED <<file_infos, file_failed_callbacks, processing_unfinished>>
       ELSE /\ file_infos' = [file_infos EXCEPT ![file_tasks[t].file_path] = "error"]
            /\ processing_unfinished' = processing_unfinished - 1
            /\ file_failed_callbacks' =
                    IF validate_file(file_tasks[t])
                    THEN [file_failed_callbacks EXCEPT ![t] = @ + 1]
                    ELSE file_failed_callbacks

processing_worker_reraise(position) == "exited"

\* the except clause of the _processing_worker loop body (lines 177-179): the
\* exception is logged and the while loop goes on
processing_worker_except(position) == "loop"

\* one round of the _processing_worker loop
ProcessingWorker(w) ==
    /\ processing_workers[w] = "loop"
    /\ IF fp_shutdown_event
       THEN /\ processing_workers' = [processing_workers EXCEPT ![w] = "exited"]
            /\ UNCHANGED <<file_tasks, processing_queue, processing_unfinished,
                           file_infos, file_failed_callbacks>>
       ELSE /\ processing_queue # <<>>
            /\ processing_queue' = Tail(processing_queue)
            /\ \E attached \in BOOLEAN :
                /\ process_file(Head(processing_queue), attached)
                /\ processing_workers' =
                        IF attached THEN processing_workers
                        ELSE [processing_workers EXCEPT ![w] = processing_worker_except(@)]
    /\ UNCHANGED <<processing_files, fp_shutdown_event, fp_is_running, fp_stopper>>
    /\ UNCHANGED <<uploadVars, sweepVars, otherVars>>

fp_start ==
    /\ ~fp_is_running
    /\ fp_stopper = "idle"
    /\ fp_is_running' = TRUE
    /\ fp_shutdown_event' = FALSE
    /\ UNCHANGED <<file_tasks, processing_queue, processing_unfinished,
                   processing_files, file_infos, processing_workers, fp_stopper,
                   file_failed_callbacks>>
    /\ UNCHANGED <<uploadVars, sweepVars, otherVars>>

\* FileProcessor.stop() up to processing_queue.join()
fp_stop ==
    /\ fp_is_running
    /\ fp_stopper = "idle"
    /\ fp_shutdown_event' = TRUE
    /\ fp_is_running' = FALSE
    /\ fp_stopper' = "join_processing"
    /\ UNCHANGED <<file_tasks, processing_queue, processing_unfinished,
                   processing_files, file_infos, processing_workers,
                   file_failed_callbacks>>
    /\ UNCHANGED <<uploadVars, sweepVars, otherVars>>

\* processing_queue.join() returns; upload_queue.join() returns at once (no
\* item is ever put on FileProcessor.upload_queue) and stop() returns
FpStopJoin ==
    /\ fp_stopper = "join_processing"
    /\ processing_unfinished = 0
    /\ fp_stopper' = "idle"
    /\ UNCHANGED <<file_tasks, processing_queue, processing_unfinished,
                   processing_files, file_infos, processing_workers,
                   fp_shutdown_event, fp_is_running, file_failed_callbacks>>
    /\ UNCHANGED <<uploadVars, sweepVars, otherVars>>

\* FileMonitorApp: detected files go to FileProcessor.add_file; UploadService
\* receives work only from _on_file_ready_for_upload, which FileProcessor
\* never calls, so its workers poll empty queues
NextPipeline ==
    \/ \E p \in Paths, kind \in Kinds, prio \in Priorities : add_file(p, kind, prio)
    \/ \E w \in ProcessingWorkers : ProcessingWorker(w)
    \/ fp_start
    \/ fp_stop
    \/ FpStopJoin
    \/ \E w \in Workers : WorkerLoop(w)
    \/ \E w \in Workers : WorkerGetUpload(w)

SpecPipeline == Init /\ [][NextPipeline]_vars

\* every worker thread that can take a step eventually takes one
FairSpecPipeline ==
    /\ SpecPipeline
    /\ \A w \in ProcessingWorkers : WF_vars(ProcessingWorker(w))
    /\ \A w \in Workers : WF_vars(WorkerLoop(w)) /\ WF_vars(WorkerGetUpload(w))

(* --------------------- reconciliation sweep, crash --------------------- *)
\* the in-memory state of FileProcessor (everything but the FileInfo rows)
fpMemVars == <<file_tasks, processing_queue, processing_unfinished, processing_files,
               processing_workers, fp_shutdown_event, fp_is_running, fp_stopper,
               file_failed_callbacks>>

\* the order in which a query returns the rows of the paths
PathOrder == <<"a", "b">>

IsPending(p) == file_infos[p] = "pending"

\* the query of process_pending_uploads: the FileInfo rows whose
\* processing_status is 'pending'; no other status and no UploadResult row
\* is looked at
PendingFiles == SelectSeq(PathOrder, IsPending)

\* the remote identifier the transport returns to the sweep
SweepApiResponse(p) == <<None, sweep_calls[p]>>

\* the error the transport returns to the sweep for a failed call
SweepTransportError(p) == <<"timeout", sweep_calls[p]>>

\* the error _record_upload_failure stores for a file that is not on disk
FileNotFound == <<"file_not_found", 0>>

UploaderSuccessRecordUnsaved(p, api_data, attempt) == NewUploadResult(p)

\* UploaderService._handle_upload_success: a new row is created, given the
\* response, and its attempt counter is set to the attempt number
UploaderSuccessRecord(p, api_data, attempt) ==
    [update_api_response(NewUploadResult(p), api_data) EXCEPT !.upload_attempts = attempt]

\* UploaderService._handle_upload_failure / _record_upload_failure: a new
\* row is created and marked failed
UploaderFailureRecord(p, error_msg) == mark_upload_failed(NewUploadResult(p), error_msg)

SweepIdle == [pc |-> "idle", pending |-> <<>>, file |-> "none", attempt |-> 0]

\* process_pending_uploads up to the first round of its loop: the query
process_pending_uploads ==
    /\ sweep.pc = "idle"
    /\ sweep' = [pc |-> "next", pending |-> PendingFiles, file |-> "none", attempt |-> 0]
    /\ UNCHANGED <<sweep_records, sweep_calls, sweep_started, sweep_failures, crashes>>
    /\ UNCHANGED <<uploadVars, processingVars, otherVars>>

\* one round of the loop of process_pending_uploads up to the transport
\* call of upload_and_record: with no file left the sweep returns; a file
\* that is not on disk is recorded as failed at once; with max_retries = 0
\* the while loop of upload_and_record (attempt < max_retries, attempt = 0)
\* is not entered and upload_and_record returns False with nothing written
SweepNext ==
    /\ sweep.pc = "next"
    /\ IF sweep.pending = <<>>
       THEN /\ sweep' = SweepIdle
            /\ UNCHANGED <<file_infos, sweep_records, sweep_calls, sweep_started>>
       ELSE LET p == Head(sweep.pending) IN
            /\ sweep_started' = [sweep_started EXCEPT ![p] = @ + 1]
            /\ \E exists \in BOOLEAN :
                IF exists /\ 0 < uploader_max_retries
                THEN /\ sweep' = [pc |-> "upload", pending |-> Tail(sweep.pending),
                                  file |-> p, attempt |-> 1]
                     /\ sweep_calls' = [sweep_calls EXCEPT ![p] = @ + 1]
                     /\ UNCHANGED <<file_infos, sweep_records>>
                ELSE IF exists
                THEN /\ sweep' = [sweep EXCEPT !.pending = Tail(@)]
                     /\ UNCHANGED <<file_infos, sweep_records, sweep_calls>>
                ELSE /\ file_infos' = [file_infos EXCEPT ![p] = "error"]
                     /\ sweep_records' = Append(sweep_records,
                                                UploaderFailureRecord(p, FileNotFound))
                     /\ sweep' = [sweep EXCEPT !.pending = Tail(@)]
                     /\ UNCHANGED sweep_calls
    /\ UNCHANGED <<sweep_failures, crashes>>
    /\ UNCHANGED <<uploadVars, fpMemVars, otherVars>>

\* the transport returned success to upload_and_record:
\* UploaderService._handle_upload_success
SweepUploadSuccess ==
    /\ sweep.pc = "upload"
    /\ file_infos' = [file_infos EXCEPT ![sweep.file] = "uploaded"]
    /\ sweep_records' = Append(sweep_records,
            UploaderSuccessRecord(sweep.file, SweepApiResponse(sweep.file), sweep.attempt))
    /\ sweep' = [sweep EXCEPT !.pc = "next", !.file = "none", !.attempt = 0]
    /\ UNCHANGED <<sweep_calls, sweep_started, sweep_failures, crashes>>
    /\ UNCHANGED <<uploadVars, fpMemVars, otherVars>>

\* the transport returned a failure to upload_and_record: below max_retries
\* attempts the loop sleeps and goes on, at max_retries attempts
\* UploaderService._handle_upload_failure records the failure
SweepUploadFailure ==
    /\ sweep.pc = "upload"
    /\ sweep_failures < MaxSweepFailures
    /\ sweep_failures' = sweep_failures + 1
    /\ IF sweep.attempt < uploader_max_retries
       THEN /\ sweep' = [sweep EXCEPT !.pc = "sleep"]
            /\ UNCHANGED <<file_infos, sweep_records>>
       ELSE /\ file_infos' = [file_infos EXCEPT ![sweep.file] = "error"]
            /\ sweep_records' = Append(sweep_records,
                    UploaderFailureRecord(sweep.file, SweepTransportError(sweep.file)))
            /\ sweep' = [sweep EXCEPT !.pc = "next", !.file = "none", !.attempt = 0]
    /\ UNCHANGED <<sweep_calls, sweep_started, crashes>>
    /\ UNCHANGED <<uploadVars, fpMemVars, otherVars>>

\* time.sleep(retry_delay) is over: the next attempt is issued
SweepRetry ==
    /\ sweep.pc = "sleep"
    /\ sweep' = [sweep EXCEPT !.pc = "upload", !.attempt = @ + 1]
    /\ sweep_calls' = [sweep_calls EXCEPT ![sweep.file] = @ + 1]
    /\ UNCHANGED <<sweep_records, sweep_started, sweep_failures, crashes>>
    /\ UNCHANGED <<uploadVars, processingVars, otherVars>>

\* the process dies and is started again: the store (upload_results,
\* file_infos, sweep_records) survives, every queue, tracking map, counter
\* and thread is as after construction; the task objects are gone (tasks
\* and file_tasks keep them as history only)
Crash ==
    /\ crashes < MaxCrashes
    /\ crashes' = crashes + 1
    /\ upload_queue' = <<>>
    /\ priority_queue' = <<>>
    /\ unfinished' = [upload |-> 0, priority |-> 0]
    /\ active_uploads' = [p \in Paths |-> None]
    /\ stats' = [total_uploads |-> 0, successful_uploads |-> 0, failed_uploads |-> 0,
                 retry_uploads |-> 0, pending_uploads |-> 0]
    /\ shutdown_event' = FALSE
    /\ is_running' = FALSE
    /\ workers' = [w \in Workers |-> [pc |-> "loop", task |-> None]]
    /\ stopper' = "idle"
    /\ processing_queue' = <<>>
    /\ processing_unfinished' = 0
    /\ processing_files' = [p \in Paths |-> None]
    /\ processing_workers' = [w \in ProcessingWorkers |-> "loop"]
    /\ fp_shutdown_event' = FALSE
    /\ fp_is_running' = FALSE
    /\ fp_stopper' = "idle"
    /\ sweep' = SweepIdle
    /\ UNCHANGED <<tasks, upload_results, calls, callbacks, lastError, enqueues,
                   failedWrites, cancelledIn, failures, atStop, file_tasks, file_infos,
                   file_failed_callbacks, sweep_records, sweep_calls, sweep_started,
                   sweep_failures>>
    /\ UNCHANGED otherVars

\* construction over a store that may hold FileInfo rows in status
\* 'pending'.  No code of the repository writes that status; the query of
\* process_pending_uploads is the only place that names it, so such rows
\* come from outside the process.
InitSweep ==
    /\ InitServices
    /\ file_infos \in [Paths -> {"absent", "pending"}]
    /\ uploader_max_retries = SweepMaxRetries

\* the scheduler's sweep beside FileProcessor, with crashes; files come from
\* FileMonitorApp._on_file_detected, which passes no priority (default 0)
NextSweep ==
    \/ \E p \in Paths, kind \in Kinds : add_file(p, kind, 0)
    \/ \E w \in ProcessingWorkers : ProcessingWorker(w)
    \/ process_pending_uploads
    \/ SweepNext
    \/ SweepUploadSuccess
    \/ SweepUploadFailure
    \/ SweepRetry
    \/ Crash

SpecSweep == InitSweep /\ [][NextSweep]_vars

\* the scheduler fires the sweep again and again, the sweep's thread and
\* the processing workers keep running
FairSpecSweep ==
    /\ SpecSweep
    /\ WF_vars(process_pending_uploads)
    /\ WF_vars(SweepNext)
    /\ WF_vars(SweepUploadSuccess \/ SweepUploadFailure)
    /\ WF_vars(SweepRetry)
    /\ \A w \in ProcessingWorkers : WF_vars(ProcessingWorker(w))

\* the scheduler's sweep beside UploadService
NextSweepUpload ==
    \/ \E p \in Paths, prio \in Priorities : add_upload_task(p, prio)
    \/ \E w \in Workers : WorkerLoop(w)
    \/ \E w \in Workers : WorkerGetUpload(w)
    \/ \E w \in Workers : HandleUploadSuccess(w)
    \/ \E w \in Workers : HandleUploadFailure(w)
    \/ \E w \in Workers : RetryRequeue(w)
    \/ process_pending_uploads
    \/ SweepNext
    \/ SweepUploadSuccess
    \/ SweepUploadFailure
    \/ SweepRetry

SpecSweepUpload == InitSweep /\ [][NextSweepUpload]_vars

(* ------------------------ coordinator ingress -------------------------- *)
\* FileMonitorApp._on_file_ready_for_upload(file_task): the ingress of
\* UploadService the coordinator registers with FileProcessor.  It calls
\* add_upload_task with the default priority and with file_info_id = 1 and
\* upload_result_id = 1 for every file.
on_file_ready_for_upload(p) ==
    /\ AddUploadTask(p, DummyUploadResultId, 0)
    /\ UNCHANGED <<processingVars, sweepVars, otherVars>>

\* files handed to the coordinator's ingress and the UploadService pool
NextCoordinator ==
    \/ \E p \in Paths : on_file_ready_for_upload(p)
    \/ \E w \in Workers : WorkerLoop(w)
    \/ \E w \in Workers : WorkerGetUpload(w)
    \/ \E w \in Workers : HandleUploadSuccess(w)
    \/ \E w \in Workers : HandleUploadFailure(w)
    \/ \E w \in Workers : RetryRequeue(w)

SpecCoordinator == Init /\ [][NextCoordinator]_vars

(* ----------------------- both pools, store outages --------------------- *)
\* the items given to either stage so far
Items == Len(tasks) + Len(file_tasks)

\* FileProcessor and UploadService each fed by its public method, with every
\* store write of UploadService free to fail, and both services started and
\* asked to stop (the thread that called stop() is left waiting in the join)
NextFaults ==
    \/ \E p \in Paths, prio \in Priorities : Items < MaxItems /\ add_upload_task(p, prio)
    \/ \E p \in Paths, kind \in Kinds : Items < MaxItems /\ add_file(p, kind, 0)
    \/ \E w \in Workers : WorkerLoop(w)
    \/ \E w \in Workers : WorkerGetUpload(w)
    \/ \E w \in Workers, store_ok \in BOOLEAN : HandleUploadSuccessStore(w, store_ok)
    \/ \E w \in Workers, store_ok1, store_ok2 \in BOOLEAN :
            HandleUploadFailureStore(w, store_ok1, store_ok2)
    \/ \E w \in Workers : RetryRequeue(w)
    \/ \E w \in ProcessingWorkers : ProcessingWorker(w)
    \/ start
    \/ stop
    \/ fp_start
    \/ fp_stop

SpecFaults == Init /\ [][NextFaults]_vars

(* ------------------------ files that disappear ------------------------ *)
\* UploadService over files that may be gone when upload_file looks for them
NextMissingFile ==
    \/ \E p \in Paths, prio \in Priorities : add_upload_task(p, prio)
    \/ \E w \in Workers : WorkerLoop(w)
    \/ \E w \in Workers : WorkerGetUpload(w)
    \/ \E w \in Workers : HandleUploadSuccess(w)
    \/ \E w \in Workers, kind \in ErrorKinds : HandleUploadFailureOf(w, kind, TRUE, TRUE)
    \/ \E w \in Workers : RetryRequeue(w)

SpecMissingFile == Init /\ [][NextMissingFile]_vars

(* ----------------------- UploadResult row methods --------------------- *)
\* the state of UploadService other than the rows
uploadMemVars == <<tasks, upload_queue, priority_queue, unfinished, active_uploads,
                   stats, shutdown_event, is_running, workers, stopper, calls,
                   callbacks, lastError, enqueues, failedWrites, cancelledIn,
                   failures, atStop>>

\* the responses and error texts the row methods are called with
ApiResponses == {<<t, 1>> : t \in TaskIds}
ErrorMessages == {<<kind, 1>> : kind \in ErrorKinds}

\* a call of UploadResult.update_api_response on row r
UpdateApiResponse(r, api_response) ==
    /\ upload_results[r].upload_attempts < MaxAttempts
    /\ upload_results' = [upload_results EXCEPT ![r] = update_api_response(@, api_response)]
    /\ UNCHANGED <<uploadMemVars, processingVars, sweepVars, otherVars>>

\* a call of UploadResult.mark_upload_failed on row r
MarkUploadFailed(r, error_message) ==
    /\ upload_results[r].upload_attempts < MaxAttempts
    /\ upload_results' = [upload_results EXCEPT ![r] = mark_upload_failed(@, error_message)]
    /\ UNCHANGED <<uploadMemVars, processingVars, sweepVars, otherVars>>

\* a call of UploadResult.mark_in_progress on row r
MarkInProgress(r) ==
    /\ upload_results' = [upload_results EXCEPT ![r] = mark_in_progress(@)]
    /\ UNCHANGED <<uploadMemVars, processingVars, sweepVars, otherVars>>

\* a call of UploadResult.reset_for_retry on row r
ResetForRetry(r) ==
    /\ upload_results' = [upload_results EXCEPT ![r] = reset_for_retry(@)]
    /\ UNCHANGED <<uploadMemVars, processingVars, sweepVars, otherVars>>

\* the row methods called in any order on the stored rows, beside
\* UploaderService creating the rows of its own uploads
NextRecord ==
    \/ \E r \in RecordIds, api_response \in ApiResponses : UpdateApiResponse(r, api_response)
    \/ \E r \in RecordIds, error_message \in ErrorMessages : MarkUploadFailed(r, error_message)
    \/ \E r \in RecordIds : MarkInProgress(r)
    \/ \E r \in RecordIds : ResetForRetry(r)
    \/ process_pending_uploads
    \/ SweepNext
    \/ SweepUploadSuccess
    \/ SweepUploadFailure
    \/ SweepRetry

SpecRecord == InitSweep /\ [][NextRecord]_vars

(* ------------------------- retry_failed_upload ------------------------- *)
\* UploaderService.retry_failed_upload(upload_result) for a failed row r,
\* up to the transport call of the upload_and_record it ends with; the
\* thread that runs upload_and_record is the one the sweep actions move.
\* With no FileInfo row for the path it returns False at once.  attached
\* tells whether the store layer accepts the update of the row object the
\* caller passed in through the session opened here: if not,
\* reset_for_retry raises, nothing is written and False is returned.
retry_failed_upload(r, attached) ==
    LET p == upload_results[r].file_path IN
    /\ sweep.pc = "idle"
    /\ upload_results[r].upload_status = "failed"
    /\ file_infos[p] # "absent"
    /\ IF ~attached
       THEN UNCHANGED <<upload_results, sweep, sweep_calls, sweep_started,
                        file_infos, sweep_records>>
       ELSE /\ upload_results' = [upload_results EXCEPT ![r] = reset_for_retry(@)]
            /\ sweep_started' = [sweep_started EXCEPT ![p] = @ + 1]
            /\ \E exists \in BOOLEAN :
                IF exists /\ 0 < uploader_max_retries
                THEN /\ sweep' = [pc |-> "upload", pending |-> <<>>,
                                  file |-> p, attempt |-> 1]
                     /\ sweep_calls' = [sweep_calls EXCEPT ![p] = @ + 1]
                     /\ UNCHANGED <<file_infos, sweep_records>>
                ELSE IF exists
                THEN UNCHANGED <<sweep, sweep_calls, file_infos, sweep_records>>
                ELSE /\ file_infos' = [file_infos EXCEPT ![p] = "error"]
                     /\ sweep_records' = Append(sweep_records,
                                                UploaderFailureRecord(p, FileNotFound))
                     /\ UNCHANGED <<sweep, sweep_calls>>
    /\ UNCHANGED <<sweep_failures, crashes>>
    /\ UNCHANGED <<uploadMemVars, fpMemVars, otherVars>>

\* the sweep beside UploadService, with failed rows retried on request
NextRetryFailed ==
    \/ NextSweepUpload
    \/ \E r \in RecordIds, attached \in BOOLEAN : retry_failed_upload(r, attached)

SpecRetryFailed == InitSweep /\ [][NextRetryFailed]_vars

(* ---------------- statement-level threads and the locks ---------------- *)
\* one statement of a method: what it does (op), on what (arg), with what
\* number (n: the amount a counter changes by, the priority of a new task)
Stmt(op, arg, n) == [op |-> op, arg |-> arg, n |-> n]

\* with self.<lock>: body
WithLock(lock, body) ==
    <<Stmt("acquire", lock, 0)>> \o body \o <<Stmt("release", lock, 0)>>

ProcessUploadTransportLocked(upload_task) ==
    <<Stmt("update_status", "uploading", 0)>>
    \o WithLock("upload_lock", <<Stmt("insert", "active_uploads", 0),
                                 Stmt("counter", "pending_uploads", -1),
                                 Stmt("callback", "started", 0),
                                 Stmt("upload_file", "api_client", 0)>>)

\* _process_upload from its first line to the transport call (lines 226-238)
ProcessUploadProgram(upload_task) ==
    <<Stmt("update_status", "uploading", 0)>>
    \o WithLock("upload_lock", <<Stmt("insert", "active_uploads", 0),
                                 Stmt("counter", "pending_uploads", -1)>>)
    \o <<Stmt("callback", "started", 0), Stmt("upload_file", "api_client", 0)>>

\* _handle_upload_success (lines 268-282)
HandleUploadSuccessProgram(upload_task) ==
    <<Stmt("update_status", "success", 0), Stmt("update_upload_result", "store", 0)>>
    \o WithLock("upload_lock", <<Stmt("counter", "successful_uploads", 1)>>)
    \o <<Stmt("callback", "completed", 0)>>

\* the queue _handle_upload_retry puts the task back on
RetryQueue(upload_task) ==
    IF upload_task.priority > 0 THEN "priority_queue" ELSE "upload_queue"

HandleUploadRetrySleepLocked(upload_task) ==
    <<Stmt("increment_retry", "task", 0), Stmt("update_status", "retry", 0)>>
    \o WithLock("upload_lock", <<Stmt("counter", "retry_uploads", 1),
                                 Stmt("callback", "retry", 0),
                                 Stmt("sleep", "retry_delay", 0)>>)
    \o <<Stmt("put", RetryQueue(upload_task), 0)>>

\* _handle_upload_retry (lines 335-356)
HandleUploadRetryProgram(upload_task) ==
    <<Stmt("increment_retry", "task", 0), Stmt("update_status", "retry", 0)>>
    \o WithLock("upload_lock", <<Stmt("counter", "retry_uploads", 1)>>)
    \o <<Stmt("callback", "retry", 0), Stmt("sleep", "retry_delay", 0),
         Stmt("put", RetryQueue(upload_task), 0)>>

\* the failure block of _handle_upload_failure (lines 301-312, and again
\* 314-323)
FailureBlock ==
    <<Stmt("update_upload_result", "store", 0)>>
    \o WithLock("upload_lock", <<Stmt("counter", "failed_uploads", 1)>>)
    \o <<Stmt("callback", "failed", 0)>>

\* _handle_upload_failure (lines 297-323)
HandleUploadFailureProgram(upload_task) ==
    IF can_retry(upload_task)
    THEN HandleUploadRetryProgram(upload_task)
    ELSE <<Stmt("update_status", "failed", 0)>> \o FailureBlock \o FailureBlock

\* the finally-block of _process_upload (lines 257-258), then the task_done
\* calls of _upload_worker (lines 173-174)
AfterUploadProgram ==
    WithLock("upload_lock", <<Stmt("pop", "active_uploads", 0)>>)
    \o <<Stmt("task_done", "queues", 0)>>

\* add_upload_task (lines 199-209)
AddUploadTaskProgram(p, prio) ==
    <<Stmt("put_new", p, prio)>>
    \o WithLock("upload_lock", <<Stmt("counter", "total_uploads", 1),
                                 Stmt("counter", "pending_uploads", 1)>>)

\* cancel_upload (lines 447-459)
CancelUploadProgram(p) == WithLock("upload_lock", <<Stmt("cancel", p, 0)>>)

\* FileProcessor.add_file (lines 205-220)
AddFileProgram(p, prio) ==
    <<Stmt("get_or_create_file_info", p, 0), Stmt("put_file", p, prio)>>
    \o WithLock("processing_lock", <<Stmt("insert", "processing_files", 0)>>)

\* the statement a thread executes next; a thread with nothing left is
\* outside any call (a worker: at the queue get of its loop)
Idle == Stmt("idle", "none", 0)
NextStmt(th) == IF threads[th].todo = <<>> THEN Idle ELSE Head(threads[th].todo)

\* the locks a thread holds
HeldBy(th) == {l \in DOMAIN locks : locks[l] = th}

\* the lock that guards an in-flight map
LockOf(map) ==
    CASE map = "active_uploads" -> "upload_lock"
      [] map = "processing_files" -> "processing_lock"
      [] map = "uploading_files" -> "uploading_lock"

\* a caller enters add_upload_task
CallAddUploadTask(p, prio) ==
    /\ threads[Client].todo = <<>>
    /\ Len(tasks) < MaxTasks
    /\ threads' = [threads EXCEPT ![Client].todo = AddUploadTaskProgram(p, prio)]
    /\ UNCHANGED <<locks, monitorVars, restartVars, uploader_max_retries>>
    /\ UNCHANGED <<uploadVars, processingVars, sweepVars>>

\* a caller enters cancel_upload
CallCancelUpload(p) ==
    /\ threads[Client].todo = <<>>
    /\ Cardinality({t \in TaskIds : cancelledIn[t] # "never"}) < MaxCancels
    /\ threads' = [threads EXCEPT ![Client].todo = CancelUploadProgram(p)]
    /\ UNCHANGED <<locks, monitorVars, restartVars, uploader_max_retries>>
    /\ UNCHANGED <<uploadVars, processingVars, sweepVars>>

\* a caller enters FileProcessor.add_file for a file that is on disk
CallAddFile(p, prio) ==
    /\ threads[Client].todo = <<>>
    /\ Len(file_tasks) < MaxLockFiles
    /\ threads' = [threads EXCEPT ![Client].todo = AddFileProgram(p, prio)]
    /\ UNCHANGED <<locks, monitorVars, restartVars, uploader_max_retries>>
    /\ UNCHANGED <<uploadVars, processingVars, sweepVars>>

\* _upload_worker takes an item: priority_queue.get, on Empty
\* upload_queue.get, then _process_upload begins
WorkerGet(w) ==
    /\ threads[w].todo = <<>>
    /\ IF priority_queue # <<>>
       THEN /\ priority_queue' = Tail(priority_queue)
            /\ upload_queue' = upload_queue
            /\ threads' = [threads EXCEPT ![w] =
                    [todo |-> ProcessUploadProgram(tasks[Head(priority_queue)]),
                     task |-> Head(priority_queue)]]
       ELSE /\ upload_queue # <<>>
            /\ upload_queue' = Tail(upload_queue)
            /\ priority_queue' = priority_queue
            /\ threads' = [threads EXCEPT ![w] =
                    [todo |-> ProcessUploadProgram(tasks[Head(upload_queue)]),
                     task |-> Head(upload_queue)]]
    /\ UNCHANGED <<tasks, unfinished, active_uploads, stats, shutdown_event, is_running,
                   workers, stopper, upload_results, calls, callbacks, lastError,
                   enqueues, failedWrites, cancelledIn, failures, atStop>>
    /\ UNCHANGED <<locks, monitorVars, restartVars, uploader_max_retries>>
    /\ UNCHANGED <<processingVars, sweepVars>>

\* a thread executes its next statement; ok is the answer of the transport
\* when the statement is the upload_file call
Step(th, ok) ==
    /\ threads[th].todo # <<>>
    /\ LET s == Head(threads[th].todo)
           rest == Tail(threads[th].todo)
           t == threads[th].task
       IN
        /\ s.op = "acquire" => locks[s.arg] = Unlocked
        /\ s.op # "upload_file" => ok
        /\ (s.op = "upload_file" /\ ~ok) => failures < MaxFailures
        /\ threads' = [threads EXCEPT ![th] =
                CASE s.op = "upload_file" ->
                        [@ EXCEPT !.todo =
                            (IF ok THEN HandleUploadSuccessProgram(tasks[t])
                                   ELSE HandleUploadFailureProgram(tasks[t]))
                            \o AfterUploadProgram]
                  [] s.op = "put_file" -> [todo |-> rest, task |-> Len(file_tasks) + 1]
                  [] OTHER -> [todo |-> rest,
                               task |-> IF rest = <<>> THEN None ELSE @.task]]
        /\ locks' = CASE s.op = "acquire" -> [locks EXCEPT ![s.arg] = th]
                      [] s.op = "release" -> [locks EXCEPT ![s.arg] = Unlocked]
                      [] OTHER -> locks
        /\ tasks' =
                CASE s.op = "update_status" ->
                        [tasks EXCEPT ![t] =
                            CASE s.arg = "success" ->
                                    [@ EXCEPT !.status = "success",
                                              !.api_response = ApiResponse(t)]
                              [] s.arg \in {"retry", "failed"} ->
                                    [@ EXCEPT !.status = s.arg,
                                              !.error_message = lastError[t]]
                              [] OTHER -> [@ EXCEPT !.status = s.arg]]
                  [] s.op = "increment_retry" -> [tasks EXCEPT ![t] = increment_retry(@)]
                  [] s.op = "put_new" ->
                        Append(tasks, NewUploadTask(s.arg, RecordOf(s.arg), s.n))
                  [] s.op = "cancel" /\ active_uploads[s.arg] # None ->
                        [tasks EXCEPT ![active_uploads[s.arg]].status = "cancelled"]
                  [] OTHER -> tasks
        /\ cancelledIn' =
                IF s.op = "cancel" /\ active_uploads[s.arg] # None
                THEN [cancelledIn EXCEPT ![active_uploads[s.arg]] =
                            tasks[active_uploads[s.arg]].status]
                ELSE cancelledIn
        /\ active_uploads' =
                CASE s.op = "insert" /\ s.arg = "active_uploads" ->
                        [active_uploads EXCEPT ![tasks[t].file_path] = t]
                  [] s.op = "pop" -> [active_uploads EXCEPT ![tasks[t].file_path] = None]
                  [] s.op = "cancel" -> [active_uploads EXCEPT ![s.arg] = None]
                  [] OTHER -> active_uploads
        /\ processing_files' =
                IF s.op = "insert" /\ s.arg = "processing_files"
                THEN [processing_files EXCEPT ![file_tasks[t].file_path] = t]
                ELSE processing_files
        /\ stats' = IF s.op = "counter" THEN [stats EXCEPT ![s.arg] = @ + s.n] ELSE stats
        /\ callbacks' =
                IF s.op # "callback" THEN callbacks
                ELSE CASE s.arg = "started" -> on_upload_started_callback(callbacks, t)
                       [] s.arg = "completed" -> on_upload_completed_callback(callbacks, t)
                       [] s.arg = "failed" -> on_upload_failed_callback(callbacks, t)
                       [] s.arg = "retry" -> on_upload_retry_callback(callbacks, t)
        /\ upload_results' =
                IF s.op = "update_upload_result"
                THEN UpdateUploadResult(upload_results, tasks[t]) ELSE upload_results
        /\ failedWrites' =
                IF s.op = "update_upload_result" /\ tasks[t].status # "success"
                THEN [failedWrites EXCEPT ![t] = @ + 1] ELSE failedWrites
        /\ calls' = IF s.op = "upload_file" THEN [calls EXCEPT ![t] = @ + 1] ELSE calls
        /\ lastError' =
                IF s.op = "upload_file" /\ ~ok
                THEN [lastError EXCEPT ![t] = <<"timeout", calls[t] + 1>>] ELSE lastError
        /\ failures' = IF s.op = "upload_file" /\ ~ok THEN failures + 1 ELSE failures
        /\ upload_queue' =
                CASE s.op = "put" /\ s.arg = "upload_queue" -> Append(upload_queue, t)
                  [] s.op = "put_new" /\ s.n = 0 -> Append(upload_queue, Len(tasks) + 1)
                  [] OTHER -> upload_queue
        /\ priority_queue' =
                CASE s.op = "put" /\ s.arg = "priority_queue" -> Append(priority_queue, t)
                  [] s.op = "put_new" /\ s.n > 0 -> Append(priority_queue, Len(tasks) + 1)
                  [] OTHER -> priority_queue
        /\ unfinished' =
                CASE s.op = "put" -> [unfinished EXCEPT
                            ![IF s.arg = "upload_queue" THEN "upload" ELSE "priority"] = @ + 1]
                  [] s.op = "put_new" -> [unfinished EXCEPT
                            ![IF s.n = 0 THEN "upload" ELSE "priority"] = @ + 1]
                  [] s.op = "task_done" -> TaskDoneBoth(unfinished)
                  [] OTHER -> unfinished
        /\ enqueues' =
                CASE s.op = "put" -> [enqueues EXCEPT ![t] = @ + 1]
                  [] s.op = "put_new" -> [enqueues EXCEPT ![Len(tasks) + 1] = @ + 1]
                  [] OTHER -> enqueues
        /\ file_infos' =
                IF s.op = "get_or_create_file_info" /\ file_infos[s.arg] = "absent"
                THEN [file_infos EXCEPT ![s.arg] = "new"] ELSE file_infos
        /\ file_tasks' =
                IF s.op = "put_file"
                THEN Append(file_tasks, NewFileTask(s.arg, "valid", s.n)) ELSE file_tasks
        /\ processing_queue' =
                IF s.op = "put_file"
                THEN Append(processing_queue, Len(file_tasks) + 1) ELSE processing_queue
        /\ processing_unfinished' =
                IF s.op = "put_file" THEN processing_unfinished + 1
                ELSE processing_unfinished
    /\ UNCHANGED <<shutdown_event, is_running, workers, stopper, atStop,
                   processing_workers, fp_shutdown_event, fp_is_running, fp_stopper,
                   file_failed_callbacks>>
    /\ UNCHANGED <<sweepVars, monitorVars, restartVars, uploader_max_retries>>

\* add_upload_task entered while the calls are followed together with
\* cancel_upload and add_file
LockAddUploadTask(p, prio) ==
    /\ Len(tasks) < MaxLockTasks
    /\ CallAddUploadTask(p, prio)

\* the worker pool and the callers of the public methods, statement by
\* statement
NextLocks ==
    \/ \E p \in Paths, prio \in Priorities : LockAddUploadTask(p, prio)
    \/ \E p \in Paths : CallCancelUpload(p)
    \/ \E p \in Paths : CallAddFile(p, 0)
    \/ \E w \in Workers : WorkerGet(w)
    \/ \E th \in LockThreads, ok \in BOOLEAN : Step(th, ok)

SpecLocks == Init /\ [][NextLocks]_vars

\* a statement executed while at most MaxDelayFailures failures are injected
DelayStep(th, ok) ==
    /\ Step(th, ok)
    /\ failures' <= MaxDelayFailures

\* the worker pool and a caller of add_upload_task, statement by statement
NextRetryDelay ==
    \/ \E p \in Paths, prio \in Priorities : CallAddUploadTask(p, prio)
    \/ \E w \in Workers : WorkerGet(w)
    \/ \E th \in LockThreads, ok \in BOOLEAN : DelayStep(th, ok)

SpecRetryDelay == Init /\ [][NextRetryDelay]_vars

\* a statement other than the retry-delay sleep
Awake(th) == \E ok \in BOOLEAN : DelayStep(th, ok) /\ NextStmt(th).op # "sleep"

\* every thread that can execute a statement executes it, a worker at a
\* non-empty queue takes an item; how long time.sleep(retry_delay) lasts is
\* not bounded
FairSpecRetryDelay ==
    /\ SpecRetryDelay
    /\ \A th \in LockThreads : WF_vars(Awake(th))
    /\ \A w \in Workers : WF_vars(WorkerGet(w))

(* ------------------------------ FileMonitor ---------------------------- *)
\* ImageFileHandler.on_deleted for a file path: _handle_file_event with
\* event_type 'deleted'.  kind is what the handler finds at the path when it
\* runs: after the removal nothing ("missing"), unless a file was put there
\* again in between.  The handler returns early unless the path exists, is an
\* image and is within the size limit (lines 63-79); only then
\* _handle_deleted_file calls mark_file_deleted, which soft-deletes the
\* FileInfo row of the path through BaseModel.delete
on_deleted(p, kind) ==
    /\ removal_events[p] < MaxRemovals
    /\ removal_events' = [removal_events EXCEPT ![p] = @ + 1]
    /\ is_deleted' = IF kind = "valid" /\ file_infos[p] # "absent"
                     THEN [is_deleted EXCEPT ![p] = TRUE]
                     ELSE is_deleted
    /\ UNCHANGED <<lockVars, restartVars, uploader_max_retries>>
    /\ UNCHANGED <<uploadVars, processingVars, sweepVars>>

\* the FileMonitor event thread beside the processing stage
NextMonitor ==
    \/ \E p \in Paths, kind \in Kinds : add_file(p, kind, 0)
    \/ \E w \in ProcessingWorkers : ProcessingWorker(w)
    \/ \E p \in Paths, kind \in Kinds : on_deleted(p, kind)

SpecMonitor == Init /\ [][NextMonitor]_vars

(* --------------------------- stop, then start -------------------------- *)
\* start(); restarted records that a stop() came before it (shutdown_event
\* is set only by stop() and cleared only by start())
StartAgain ==
    /\ Start
    /\ restarted' = (restarted \/ shutdown_event)
    /\ UNCHANGED <<late_tasks, lockVars, monitorVars, uploader_max_retries>>
    /\ UNCHANGED <<processingVars, sweepVars>>

\* add_upload_task; late_tasks records the tasks added after the restart
AddAfterRestart(p, prio) ==
    /\ AddUploadTask(p, RecordOf(p), prio)
    /\ late_tasks' = IF restarted THEN late_tasks \cup {Len(tasks) + 1} ELSE late_tasks
    /\ UNCHANGED <<restarted, lockVars, monitorVars, uploader_max_retries>>
    /\ UNCHANGED <<processingVars, sweepVars>>

\* UploadService stopped and started again, over a transport that answers
NextRestart ==
    \/ \E p \in Paths, prio \in Priorities : AddAfterRestart(p, prio)
    \/ \E w \in Workers : WorkerLoop(w)
    \/ \E w \in Workers : WorkerGetUpload(w)
    \/ \E w \in Workers : HandleUploadSuccess(w)
    \/ StartAgain
    \/ stop
    \/ StopJoinUpload
    \/ StopJoinPriority

SpecRestart == Init /\ [][NextRestart]_vars

\* every worker thread that can take a step takes it, the transport
\* answers, a join() that can return returns
FairSpecRestart ==
    /\ SpecRestart
    /\ \A w \in Workers :
        WF_vars(WorkerLoop(w)) /\ WF_vars(WorkerGetUpload(w))
            /\ WF_vars(HandleUploadSuccess(w))
    /\ WF_vars(StopJoinUpload) /\ WF_vars(StopJoinPriority)

(* ---------------------- configured retry attempts ---------------------- *)
\* construction with api.retry_attempts read from the configuration:
\* validate_config accepts every integer >= 0
InitConfigured ==
    /\ InitServices
    /\ file_infos \in [Paths -> {"absent", "pending"}]
    /\ uploader_max_retries \in 0..MaxConfiguredRetries

\* the interval job starts process_pending_uploads
ScheduledSweep ==
    /\ \A p \in Paths : sweep_started[p] < MaxSweeps
    /\ process_pending_uploads

\* the periodic sweep alone, run again and again
NextConfigured ==
    \/ ScheduledSweep
    \/ SweepNext
    \/ SweepUploadSuccess
    \/ SweepUploadFailure
    \/ SweepRetry

SpecConfigured == InitConfigured /\ [][NextConfigured]_vars

(* ------------------------------ properties ----------------------------- *)
Terminal == {"success", "failed"}

\* the tasks created for the row rid
TasksOf(rid) == {t \in DOMAIN tasks : tasks[t].upload_result_id = rid}

\* the tasks waiting on a queue or held by a worker
InFlight == (Queued \cup {workers[w].task : w \in Workers}) \ {None}

\* C1: every valid file submitted to FileProcessor.add_file eventually, under
\* fair scheduling of the workers, has a terminal (success or failed)
\* upload record persisted.
C1_EveryValidFileReachesTerminalRecord ==
    \A t \in FileTaskIds :
        (t \in DOMAIN file_tasks /\ validate_file(file_tasks[t]))
            ~> (/\ t \in DOMAIN file_tasks
                /\ upload_results[RecordOf(file_tasks[t].file_path)].upload_status
                        \in Terminal)

\* C2: when a task becomes failed, the transport has been invoked exactly
\* 1 + max_retries times for it, its record is persisted as failed with the
\* error of the last failed attempt, and it is on no queue; a failed task
\* is never enqueued again and is never attempted again.
C2_ExhaustedRetriesFailOnce ==
    [][\A t \in DOMAIN tasks :
        /\ (tasks[t].status # "failed" /\ tasks'[t].status = "failed") =>
              /\ calls'[t] = 1 + tasks[t].max_retries
              /\ upload_results'[tasks[t].upload_result_id].upload_status = "failed"
              /\ upload_results'[tasks[t].upload_result_id].error_message = lastError'[t]
              /\ lastError'[t] = <<"timeout", calls'[t]>>
              /\ t \notin Queued'
        /\ tasks[t].status = "failed" =>
              /\ enqueues'[t] = enqueues[t]
              /\ calls'[t] = calls[t]
              /\ t \notin Queued'
      ]_vars

C2_Witness ==
    \E t \in DOMAIN tasks :
        /\ tasks[t].status = "failed"
        /\ calls[t] = 1 + MaxRetries
        /\ upload_results[tasks[t].upload_result_id].upload_status = "failed"
        /\ upload_results[tasks[t].upload_result_id].error_message = <<"timeout", calls[t]>>

\* C3: a task whose first k attempts failed and whose attempt k+1 succeeded
\* (k <= max_retries) has had the retry callback fired exactly k times, the
\* success callback exactly once and the failure callback never, and its
\* status is success; the success callback fires for no other task.
C3_SuccessAfterRetries ==
    \A t \in DOMAIN tasks :
        (tasks[t].status = "success" \/ callbacks[t].completed > 0) =>
            /\ tasks[t].status = "success"
            /\ calls[t] - 1 <= tasks[t].max_retries
            /\ callbacks[t].retry = calls[t] - 1
            /\ callbacks[t].completed = 1
            /\ callbacks[t].failed = 0

C3_Witness ==
    \E t \in DOMAIN tasks :
        /\ tasks[t].status = "success"
        /\ calls[t] = 3
        /\ callbacks[t].retry = 2
        /\ callbacks[t].completed = 1

\* C4: when a task is terminal (success or failed) and is the only task of
\* its record, the record's persisted attempt counter equals the number of
\* transport attempts made for the task.
C4_AttemptCounterMatchesAttempts ==
    \A t \in DOMAIN tasks :
        (tasks[t].status \in Terminal /\ TasksOf(tasks[t].upload_result_id) = {t}) =>
            upload_results[tasks[t].upload_result_id].upload_attempts = calls[t]

\* C5: for a task that ended failed the failure callback fired exactly once
\* and the failed outcome was written to the store exactly once, and
\* failed_uploads counts each failed task once.
C5_FailureHandledOnce ==
    /\ \A t \in DOMAIN tasks :
          tasks[t].status = "failed" =>
              callbacks[t].failed = 1 /\ failedWrites[t] = 1
    /\ stats.failed_uploads =
          Cardinality({t \in DOMAIN tasks : callbacks[t].failed > 0})

\* C6: for each path at most one upload work item is queued or in process
\* at any instant.
C6_OneActiveItemPerPath ==
    \A p \in Paths :
        Cardinality({t \in InFlight : tasks[t].file_path = p}) <= 1

\* C7: retry_count never exceeds max_retries; it grows by one, and only from
\* a value strictly below max_retries; a task is put back on a queue only
\* after such an increment, once per increment; a failed attempt at
\* retry_count = max_retries makes the task failed and does not enqueue it.
C7_RetryBound ==
    [][\A t \in DOMAIN tasks :
        /\ tasks'[t].retry_count <= tasks'[t].max_retries
        /\ tasks'[t].retry_count # tasks[t].retry_count =>
              /\ tasks[t].retry_count < tasks[t].max_retries
              /\ tasks'[t].retry_count = tasks[t].retry_count + 1
        /\ enqueues'[t] # enqueues[t] =>
              /\ tasks[t].retry_count - 1 < tasks[t].max_retries
              /\ enqueues'[t] = 1 + tasks[t].retry_count
              /\ tasks'[t].retry_count = tasks[t].retry_count
        /\ (lastError'[t] # lastError[t]
                /\ tasks[t].retry_count = tasks[t].max_retries) =>
              /\ tasks'[t].status = "failed"
              /\ enqueues'[t] = enqueues[t]
              /\ t \notin Queued'
      ]_vars

C7_Witness ==
    \E t \in DOMAIN tasks :
        /\ tasks[t].retry_count = tasks[t].max_retries
        /\ tasks[t].status = "failed"
        /\ enqueues[t] = 1 + tasks[t].max_retries

\* C8: once an upload record is success, no step changes its status or its
\* remote identifier.
C8_SuccessIsFinal ==
    [][\A r \in RecordIds :
        upload_results[r].upload_status = "success" =>
            /\ upload_results'[r].upload_status = "success"
            /\ upload_results'[r].api_file_id = upload_results[r].api_file_id
      ]_vars

\* C9: after cancel_upload returned True for a task that was uploading, the
\* task is absent from active_uploads, keeps the status cancelled, and is
\* never enqueued or sent to the transport again.
C9_CancelledStaysCancelled ==
    [][\A t \in DOMAIN tasks :
        cancelledIn[t] = "uploading" =>
            /\ tasks'[t].status = "cancelled"
            /\ active_uploads'[tasks[t].file_path] # t
            /\ enqueues'[t] = enqueues[t]
            /\ calls'[t] = calls[t]
      ]_vars

\* C10: when the workers have exited after stop(), every item that was on a
\* queue when stop() was called has been processed (handed to the
\* transport).
C10_StopDrainsQueues ==
    (\A w \in Workers : workers[w].pc = "exited") =>
        \A item \in atStop : calls[item[1]] >= item[2]

\* the upload records of a path: the row add_upload_task's client names and
\* the rows UploaderService created
SweepRecordsOf(p) == {i \in DOMAIN sweep_records : sweep_records[i].file_path = p}

\* C11: after a crash and restart, every submitted file whose persisted
\* record is non-terminal (FileInfo new or processing) is eventually
\* uploaded or marked failed by the sweep runs that follow.
C11_CrashRecoveryBySweep ==
    \A p \in Paths :
        (crashes > 0 /\ file_infos[p] \in {"new", "processing"})
            ~> (\/ file_infos[p] \in {"uploaded", "error"}
                \/ \E i \in SweepRecordsOf(p) :
                        sweep_records[i].upload_status \in Terminal)

\* the paths in a list
PathsIn(seq) == {seq[i] : i \in DOMAIN seq}

\* C12: a sweep run selects every FileInfo row that is pending, and when the
\* transport answers the sweep's upload of such a file with success, the
\* file's row becomes uploaded and an upload record of the file is persisted
\* in status success, with the remote identifier of that call and the
\* number of the attempt.
C12_SweepUploadsPendingFile ==
    [][/\ (sweep.pc = "idle" /\ sweep'.pc = "next") =>
            \A p \in Paths : file_infos[p] = "pending" => p \in PathsIn(sweep'.pending)
       /\ \A p \in Paths :
            (/\ sweep.pc = "upload" /\ sweep.file = p
             /\ sweep'.pc = "next" /\ sweep_failures' = sweep_failures) =>
                /\ sweep_started[p] > 0
                /\ file_infos'[p] = "uploaded"
                /\ Len(sweep_records') = Len(sweep_records) + 1
                /\ sweep_records'[Len(sweep_records')].file_path = p
                /\ sweep_records'[Len(sweep_records')].upload_status = "success"
                /\ sweep_records'[Len(sweep_records')].api_file_id = <<None, sweep_calls[p]>>
                /\ sweep_records'[Len(sweep_records')].upload_attempts = sweep.attempt
      ]_vars

C12_Witness ==
    \E i \in DOMAIN sweep_records :
        /\ sweep_records[i].upload_status = "success"
        /\ sweep_records[i].upload_attempts = 2
        /\ file_infos[sweep_records[i].file_path] = "uploaded"
        /\ sweep.pc = "idle"

\* the paths an in-memory stage holds: queued or in process in
\* FileProcessor or in UploadService
HeldPaths ==
    {file_tasks[processing_queue[i]].file_path : i \in DOMAIN processing_queue}
        \cup {tasks[t].file_path : t \in InFlight}

\* the paths with a persisted record in a non-terminal status that no
\* in-memory stage holds: a FileInfo row pending or processing, or an
\* UploadResult row pending or in_progress
Stalled ==
    {p \in Paths \ HeldPaths :
        \/ file_infos[p] \in {"pending", "processing"}
        \/ upload_results[RecordOf(p)].upload_status \in {"pending", "in_progress"}}

\* C13: a sweep run selects every persisted record left in a non-terminal
\* status that no stage holds in memory; none is skipped.
C13_SweepSkipsNoStalledRecord ==
    [][(sweep.pc = "idle" /\ sweep'.pc = "next") =>
            Stalled \subseteq PathsIn(sweep'.pending)
      ]_vars

\* C14: the sweep never begins an upload (upload_and_record) for a path
\* that an in-memory stage holds queued or in process at that moment.
C14_SweepAvoidsHeldPaths ==
    [][\A p \in Paths :
        sweep_started'[p] > sweep_started[p] => p \notin HeldPaths
      ]_vars

\* the submitted files are distinct
DistinctFiles ==
    \A t1, t2 \in DOMAIN tasks : tasks[t1].file_path = tasks[t2].file_path => t1 = t2

\* C15: when distinct files were submitted to the pool and every one of
\* them has been worked off (nothing queued, nothing in a worker's hand),
\* each file's own upload record is terminal and no record holds the
\* outcome of two files.
C15_OneTerminalRecordPerFile ==
    (tasks # <<>> /\ DistinctFiles /\ InFlight = {}) =>
        \A t \in DOMAIN tasks :
            /\ upload_results[RecordOf(tasks[t].file_path)].upload_status \in Terminal
            /\ TasksOf(tasks[t].upload_result_id) = {t}

\* C16: once every submitted file task is terminal and no upload task is in
\* flight, the processing queue is empty and the tracking maps
\* processing_files and active_uploads have no entry.
C16_TrackingEmptyWhenAllTerminal ==
    (/\ file_tasks # <<>>
     /\ \A t \in DOMAIN file_tasks : file_tasks[t].status = "failed"
     /\ InFlight = {}) =>
        /\ processing_queue = <<>>
        /\ \A p \in Paths : processing_files[p] = None /\ active_uploads[p] = None

\* C17: add_file enqueues a task only for a file that passes validation:
\* a task that a step adds to file_tasks (and with it to processing_queue
\* and processing_files) is for an existing file of allowed size and
\* extension.
C17_AddFileRejectsInvalidFile ==
    [][\A t \in FileTaskIds :
            (t \notin DOMAIN file_tasks /\ t \in DOMAIN file_tasks') =>
                validate_file(file_tasks'[t])]_vars

\* C18: an oversize file that the processing stage has worked off has a
\* FileInfo row in status error, no upload task exists for its path and the
\* transport was never called for it.
C18_OversizeFileEndsInError ==
    \A t \in DOMAIN file_tasks :
        (file_tasks[t].kind = "oversize" /\ file_tasks[t].status = "failed") =>
            /\ file_infos[file_tasks[t].file_path] = "error"
            /\ \A u \in DOMAIN tasks :
                    tasks[u].file_path # file_tasks[t].file_path /\ calls[u] = 0

\* C19: a submitted file that passes validation is eventually marked
\* processed in its FileInfo row and an upload task for its path is then
\* given to UploadService.
C19_ValidFileProcessedAndForwarded ==
    \A p \in Paths :
        (\E t \in DOMAIN file_tasks :
            file_tasks[t].file_path = p /\ validate_file(file_tasks[t]))
          ~> (/\ file_infos[p] = "processed"
              /\ \E u \in DOMAIN tasks : tasks[u].file_path = p)

\* C20: every file task whose processing failed, by validation or by an
\* exception, had the failure callback invoked for it.
C20_FailureCallbackForEveryFailedItem ==
    \A t \in DOMAIN file_tasks :
        file_tasks[t].status = "failed" => file_failed_callbacks[t] >= 1

\* C21: a file task whose processing failed has its FileInfo row in status
\* error, is not on the processing queue again and no upload task was
\* created for it.
C21_FailedItemMarkedErrorAndNotReprocessed ==
    \A t \in DOMAIN file_tasks :
        file_tasks[t].status = "failed" =>
            /\ file_infos[file_tasks[t].file_path] = "error"
            /\ \A i \in DOMAIN processing_queue : processing_queue[i] # t
            /\ tasks = <<>>

\* C22: a worker thread of either pool leaves its loop only when shutdown
\* was requested, whatever happened while it handled an item (transport
\* failure, failed store write, exception out of _process_file), and a
\* worker that handled an item is back at the head of its loop.
C22_WorkerLoopsSurviveFailures ==
    [][/\ \A w \in Workers :
            /\ (workers[w].pc # "exited" /\ workers'[w].pc = "exited") => shutdown_event
            /\ workers[w].pc \in {"upload", "retry_sleep"} =>
                    workers'[w].pc \in {"upload", "retry_sleep", "loop"}
       /\ \A w \in ProcessingWorkers :
            (processing_workers[w] # "exited" /\ processing_workers'[w] = "exited")
                => fp_shutdown_event]_vars

\* an exception left _process_file (task failed, row untouched), a store
\* write of an upload outcome failed (task success, row pending), no
\* shutdown was requested and every worker of both pools is alive
C22_Witness ==
    /\ \E t \in DOMAIN file_tasks :
            file_tasks[t].status = "failed" /\ file_infos[file_tasks[t].file_path] = "new"
    /\ \E t \in DOMAIN tasks :
            /\ tasks[t].status = "success"
            /\ upload_results[tasks[t].upload_result_id].upload_status = "pending"
    /\ ~shutdown_event /\ ~fp_shutdown_event
    /\ \A w \in Workers : workers[w].pc = "loop"
    /\ \A w \in ProcessingWorkers : processing_workers[w] = "loop"

\* C23: when the upload of a task finds its file gone, the worker records
\* the failure and does not retry the task: the task becomes failed at
\* once, its retry counter is left alone and it is put on no queue.
C23_MissingFileNotRetried ==
    [][\A w \in Workers :
            (/\ workers[w].pc = "upload"
             /\ workers'[w].pc # "upload"
             /\ failures' > failures
             /\ lastError'[workers[w].task][1] = "not_found") =>
                /\ tasks'[workers[w].task].status = "failed"
                /\ tasks'[workers[w].task].retry_count = tasks[workers[w].task].retry_count
                /\ workers'[w].pc = "loop"]_vars

\* C24: in both stages a worker that starts a dequeue while an item of
\* priority > 0 and a default item are waiting takes the priority item.
C24_PriorityItemsServedFirst ==
    [][/\ (processing_queue # <<>> /\ processing_queue' = Tail(processing_queue)) =>
            ((\E i \in DOMAIN processing_queue :
                    file_tasks[processing_queue[i]].priority > 0)
                => file_tasks[Head(processing_queue)].priority > 0)
       /\ \A w \in Workers :
            (workers[w].pc = "loop" /\ workers'[w].pc = "upload" /\ priority_queue # <<>>)
                => tasks[workers'[w].task].priority > 0]_vars

\* the calls of APIClient.upload_file that have been issued and have not
\* returned: one per pool worker inside the call, and the one of the thread
\* running upload_and_record
TransportCallsInProgress ==
    Cardinality({w \in Workers : workers[w].pc = "upload"})
        + (IF sweep.pc = "upload" THEN 1 ELSE 0)

\* C25: at every instant at most max_concurrent_uploads transport calls are
\* in progress and active_uploads holds at most that many entries.
C25_TransportCallsBoundedByPool ==
    /\ TransportCallsInProgress <= NumWorkers
    /\ Cardinality({p \in Paths : active_uploads[p] # None}) <= NumWorkers

\* C26: no step lowers the attempt counter of a stored upload record, and
\* the counter UploaderService assigns to the row of a successful upload is
\* not below the one update_api_response had just given that row.
C26_AttemptCounterNeverDecreases ==
    [][/\ \A r \in RecordIds :
            upload_results'[r].upload_attempts >= upload_results[r].upload_attempts
       /\ \A i \in DOMAIN sweep_records :
            /\ i \in DOMAIN sweep_records'
            /\ sweep_records'[i].upload_attempts >= sweep_records[i].upload_attempts
       /\ \A i \in DOMAIN sweep_records' \ DOMAIN sweep_records :
            sweep_records'[i].upload_status = "success" =>
                sweep_records'[i].upload_attempts >=
                    update_api_response(NewUploadResult(sweep_records'[i].file_path),
                                        sweep_records'[i].api_file_id).upload_attempts]_vars

\* a row that was marked failed several times and then reset for retry,
\* beside a row UploaderService saved for an upload that succeeded at its
\* second attempt
C26_Witness ==
    /\ \E r \in RecordIds :
            /\ upload_results[r].upload_status = "pending"
            /\ upload_results[r].upload_attempts = MaxAttempts
    /\ \E r \in RecordIds : upload_results[r].upload_status = "in_progress"
    /\ \E i \in DOMAIN sweep_records :
            sweep_records[i].upload_status = "success" /\ sweep_records[i].upload_attempts = 2

C28_RetryRequeuesOnOwnQueue ==
    [][\A w \in Workers :
        LET t == workers[w].task IN
        /\ (/\ workers[w].pc = "upload"
            /\ workers'[w].pc # "upload"
            /\ failures' > failures
            /\ tasks[t].retry_count < tasks[t].max_retries) =>
                /\ tasks'[t].retry_count = tasks[t].retry_count + 1
                /\ tasks'[t].status = "retry"
                /\ callbacks'[t].retry = callbacks[t].retry + 1
                /\ workers'[w] = [pc |-> "retry_sleep", task |-> t]
                /\ enqueues'[t] = enqueues[t]
                /\ upload_queue' = upload_queue
                /\ priority_queue' = priority_queue
        /\ (workers[w].pc = "retry_sleep" /\ workers'[w].pc # "retry_sleep") =>
                /\ enqueues'[t] = enqueues[t] + 1
                /\ tasks'[t] = tasks[t]
                /\ IF tasks[t].priority > 0
                   THEN /\ priority_queue' = Append(priority_queue, t)
                        /\ upload_queue' = upload_queue
                   ELSE /\ upload_queue' = Append(upload_queue, t)
                        /\ priority_queue' = priority_queue]_vars

\* a priority task and a default task, each back on its own queue after a
\* first failed attempt
C28_Witness ==
    /\ \E t \in DOMAIN tasks :
            /\ tasks[t].priority > 0
            /\ tasks[t].status = "retry" /\ tasks[t].retry_count = 1
            /\ callbacks[t].retry = 1 /\ enqueues[t] = 2
            /\ \E i \in DOMAIN priority_queue : priority_queue[i] = t
    /\ \E t \in DOMAIN tasks :
            /\ tasks[t].priority = 0
            /\ tasks[t].status = "retry" /\ tasks[t].retry_count = 1
            /\ callbacks[t].retry = 1 /\ enqueues[t] = 2
            /\ \E i \in DOMAIN upload_queue : upload_queue[i] = t

\* C29: a step that changes a stored upload record is the step of a worker
\* finishing the upload of the file that record belongs to: the outcome of
\* the upload of one file is never written to the record of another.
C29_OutcomeWrittenToOwnRecordOnly ==
    [][\A r \in RecordIds :
            upload_results'[r] # upload_results[r] =>
                \E w \in Workers :
                    /\ workers[w].pc = "upload"
                    /\ workers'[w].pc # "upload"
                    /\ RecordOf(tasks[workers[w].task].file_path) = r]_vars

\* C30: an outcome the store did not accept is not passed off as done: a
\* task the pool has let go of with status success, or for which the
\* completion callback fired, has a terminal upload record.
C30_FailedPersistenceIsSurfaced ==
    \A t \in DOMAIN tasks :
        (t \notin InFlight /\ (tasks[t].status = "success" \/ callbacks[t].completed > 0)) =>
            upload_results[tasks[t].upload_result_id].upload_status \in Terminal

\* the values the processing status of a FileInfo row is meant to take
FileRecordStatuses == {"new", "processing", "processed", "error"}

\* C31: a step that changes the processing status of a FileInfo row writes
\* one of new, processing, processed, error.
C31_FileStatusWritesStayInDomain ==
    [][\A p \in Paths :
            file_infos'[p] # file_infos[p] => file_infos'[p] \in FileRecordStatuses]_vars

\* the statements that call the transport, sleep, write to the store or
\* invoke a callback
BlockingOps == {"upload_file", "sleep", "update_upload_result",
                "get_or_create_file_info", "callback"}

\* the statements that insert into or remove from an in-flight map
MapOps == {"insert", "pop", "cancel"}

\* the map a statement of MapOps changes
MapOf(s) == IF s.op = "cancel" THEN "active_uploads" ELSE s.arg

\* C32: a thread about to call the transport, sleep for the retry delay,
\* write to the store or invoke a callback holds none of upload_lock,
\* processing_lock, uploading_lock, and a thread about to insert into or
\* remove from an in-flight map holds the lock of that map.
C32_LocksHeldOnlyAroundMapUpdates ==
    \A th \in LockThreads :
        /\ NextStmt(th).op \in BlockingOps => HeldBy(th) = {}
        /\ NextStmt(th).op \in MapOps => locks[LockOf(MapOf(NextStmt(th)))] = th

\* a worker is in the retry delay while the caller of cancel_upload is
\* inside the locked block
C32_Witness ==
    \E w \in Workers :
        /\ NextStmt(w).op = "sleep"
        /\ NextStmt(Client).op = "cancel"
        /\ locks.upload_lock = Client

\* a worker has issued the transport call for the task
StartedByWorker(t) ==
    \E w \in Workers : threads[w].task = t /\ NextStmt(w).op = "upload_file"

\* a worker is in time.sleep(retry_delay)
Sleeping(w) == NextStmt(w).op = "sleep"

\* C33: a task that is queued while a worker waits out a retry delay is
\* started by a worker, unless every worker of the pool is in a retry
\* delay.
C33_RetryDelayBlocksOnlyItsWorker ==
    \A t \in TaskIds :
        []((t \in Queued /\ \E w \in Workers : Sleeping(w))
            => <>(StartedByWorker(t) \/ \A w \in Workers : Sleeping(w)))

\* one worker is in the retry delay and another has issued the transport
\* call for another task
C33_Witness ==
    \E w1, w2 \in Workers :
        /\ Sleeping(w1)
        /\ NextStmt(w2).op = "upload_file"
        /\ threads[w2].task # threads[w1].task

\* C34: a removal event handled for a path that has a FileInfo row leaves
\* the row soft-deleted (is_deleted true), and no step removes a FileInfo
\* row from the store.
C34_RemovalSoftDeletesRecord ==
    [][\A p \in Paths :
            /\ (removal_events'[p] # removal_events[p] /\ file_infos[p] # "absent")
                    => is_deleted'[p]
            /\ file_infos[p] # "absent" => file_infos'[p] # "absent"]_vars

\* the tasks a worker has taken from a queue and not yet finished with
InHandOf(prio_class) ==
    {w \in Workers : /\ workers[w].task # None
                      /\ (tasks[workers[w].task].priority > 0) = prio_class}

\* C35: the unfinished count of each UploadService queue (puts minus
\* task_done calls) equals the items waiting on that queue plus the items
\* taken from it that a worker still has in hand, so join() on a queue
\* returns exactly when its items are all processed.
C35_TaskDoneMatchesOwnQueue ==
    /\ unfinished.upload = Len(upload_queue) + Cardinality(InHandOf(FALSE))
    /\ unfinished.priority = Len(priority_queue) + Cardinality(InHandOf(TRUE))

\* C36: a task added after stop() followed by start() is taken by a worker
\* and handed to the transport, unless the stage is stopped again.
C36_RestartedStageProcessesWork ==
    \A t \in TaskIds :
        [](t \in late_tasks => <>(calls[t] > 0 \/ shutdown_event))

\* C37: stats.pending_uploads is never negative and equals the number of
\* tasks waiting on upload_queue and priority_queue.
C37_PendingUploadsCountsQueuedTasks ==
    /\ stats.pending_uploads >= 0
    /\ stats.pending_uploads = Len(upload_queue) + Len(priority_queue)

\* C38: while the transport call of a task is in progress, the UploadResult
\* row of the task is persisted as in_progress.
C38_InProgressPersistedBeforeTransport ==
    \A w \in Workers :
        workers[w].pc = "upload" =>
            upload_results[tasks[workers[w].task].upload_result_id].upload_status
                = "in_progress"

\* C39: once upload_and_record has returned for a file the sweep selected,
\* the FileInfo row of the file is in a terminal status (uploaded or
\* error), whatever retry_attempts >= 0 is configured.
C39_SweptRecordBecomesTerminal ==
    \A p \in Paths :
        (sweep_started[p] > 0 /\ sweep.file # p) =>
            file_infos[p] \in {"uploaded", "error"}

\* the rows reset_for_retry has put back to pending: a row that was never
\* written is pending with no attempt counted, and reset_for_retry keeps
\* the attempt counter
ResetRows ==
    {r \in RecordIds : /\ upload_results[r].upload_status = "pending"
                        /\ upload_results[r].upload_attempts > 0}

====
